---- MODULE Spec2Model ----
(***************************************************************************)
(* Model of scripts/ena_to_linkml.py: the ENA checklist XML parser, the    *)
(* LinkML schema builder and the batch driver.                             *)
(*                                                                         *)
(* A Python str is a sequence of characters.  A character is a TLA+ string *)
(* of length one; a longer TLA+ string ("mandatory", "kg") stands for a    *)
(* run of non-whitespace characters that the code only ever compares or    *)
(* copies as a whole.  None and "" are both the empty sequence wherever    *)
(* the code only tests truthiness.                                         *)
(* An XML element is a record tag |-> sequence of the children with that   *)
(* tag, in document order (what findall returns); a leaf child is its text.*)
(* A Python dict is the insertion-ordered sequence of its items.           *)
(***************************************************************************)
EXTENDS Integers, Sequences, FiniteSets, TLC

VARIABLES pc,          \* position of the running function
          arg,         \* argument of the function under test
          ret,         \* its return value
          xml,         \* the XML document being converted
          checklist,   \* parse_checklist_xml's result
          acc,         \* convert_to_linkml's locals: slots, enums, slot_names, slot_usage, rank
          gi, fi,      \* convert_to_linkml's loop position (group, field)
          schema,      \* convert_to_linkml's result
          xml_files,   \* main: the resolved input list
          idx,         \* main: index of the file being processed
          fs,          \* the output directory: path |-> file state
          log          \* per input file: what main has done with it

vars == <<pc, arg, ret, xml, checklist, acc, gi, fi, schema, xml_files, idx, fs, log>>

----------------------------------------------------------------------------
(* Bounds of the model *)

MaxNameLen == 3
MaxFields == 3
MaxGroups == 2
MaxUnits == 2
MaxChoices == 2
MaxFiles == 2

SeqsUpTo(S, n) == UNION {[1..k -> S] : k \in 0..n}

----------------------------------------------------------------------------
(* Python str operations *)

IsSpace(c) == c \in {" ", "\n"}

RECURSIVE LStrip(_)
LStrip(s) == IF s # <<>> /\ IsSpace(Head(s)) THEN LStrip(Tail(s)) ELSE s

RECURSIVE RStrip(_)
RStrip(s) ==
    IF s # <<>> /\ IsSpace(s[Len(s)]) THEN RStrip(SubSeq(s, 1, Len(s) - 1)) ELSE s

\* str.strip()
Strip(s) == RStrip(LStrip(s))

\* str.upper() / str.lower() on one character
Upper(c) == CASE c = "a" -> "A" [] c = "b" -> "B" [] OTHER -> c
Lower(c) == CASE c = "A" -> "a" [] c = "B" -> "b" [] OTHER -> c

\* A plausible slip: upper-case the first character, keep the rest.
CapitalizeKeepRest(p) ==
    IF p = <<>> THEN <<>> ELSE <<Upper(Head(p))>> \o Tail(p)

\* str.capitalize(): first character upper-cased, every other one lower-cased
Capitalize(p) ==
    IF p = <<>> THEN <<>>
    ELSE <<Upper(Head(p))>> \o [i \in 1..(Len(p) - 1) |-> Lower(p[i + 1])]

\* str.split(sep): always at least one part; empty parts are kept
RECURSIVE Split(_, _)
Split(s, sep) ==
    IF \A i \in 1..Len(s) : s[i] # sep THEN <<s>>
    ELSE LET k == CHOOSE i \in 1..Len(s) :
                      s[i] = sep /\ \A j \in 1..(i - 1) : s[j] # sep
         IN  <<SubSeq(s, 1, k - 1)>> \o Split(SubSeq(s, k + 1, Len(s)), sep)

\* "".join(parts)
RECURSIVE Concat(_)
Concat(parts) == IF parts = <<>> THEN <<>> ELSE Head(parts) \o Concat(Tail(parts))

\* sep.join(parts)
RECURSIVE Join(_, _)
Join(parts, sep) ==
    IF parts = <<>> THEN <<>>
    ELSE IF Len(parts) = 1 THEN parts[1]
    ELSE parts[1] \o sep \o Join(Tail(parts), sep)

----------------------------------------------------------------------------
(* Python dict operations: a dict is the sequence of its items [k, v] *)

Keys(d) == {d[i].k : i \in 1..Len(d)}
HasKey(d, key) == key \in Keys(d)
Get(d, key) == d[CHOOSE i \in 1..Len(d) : d[i].k = key].v

\* d[key] = val: a new key is appended, an existing key keeps its position
DictSet(d, key, val) ==
    IF HasKey(d, key)
    THEN [i \in 1..Len(d) |-> IF d[i].k = key THEN [k |-> key, v |-> val] ELSE d[i]]
    ELSE Append(d, [k |-> key, v |-> val])

----------------------------------------------------------------------------
(* Name helpers *)

Menu == <<"M", "e", "n", "u">>

\* _make_enum_name
MakeEnumName(field_name) ==
    LET parts == Split(field_name, "_")
    IN  Concat([i \in 1..Len(parts) |-> Capitalize(parts[i])]) \o Menu

\* _make_schema_name
MakeSchemaName(accession) == accession

----------------------------------------------------------------------------
(* XML parsing *)

\* _text: stripped text of the first child with that tag, "" when there is none
Text(parent, tag) ==
    LET el == parent[tag]
    IN  IF Len(el) > 0 THEN Strip(el[1]) ELSE <<>>

\* Element.get(name, ""): the attribute, unstripped
Attr(el, name) == IF Len(el[name]) > 0 THEN el[name][1] ELSE <<>>

Truthy(s) == Len(s) > 0

\* _parse_field.  field_type "None" is Python's None; regex_value is <<>>
\* for None and <<text>> otherwise.
ParseField(field_el) ==
    LET ft           == field_el.FIELD_TYPE
        text_field   == IF Len(ft) > 0 THEN ft[1].TEXT_FIELD ELSE <<>>
        choice_field == IF Len(ft) > 0 THEN ft[1].TEXT_CHOICE_FIELD ELSE <<>>
        tvs          == IF Len(choice_field) > 0 THEN choice_field[1].TEXT_VALUE ELSE <<>>
        vals         == [i \in 1..Len(tvs) |-> Text(tvs[i], "VALUE")]
        regex_el     == IF Len(text_field) > 0 THEN text_field[1].REGEX_VALUE ELSE <<>>
        units_el     == field_el.UNITS
        us           == IF Len(units_el) > 0 THEN units_el[1].UNIT ELSE <<>>
        utexts       == SelectSeq(us, Truthy)
    IN  [label        |-> Text(field_el, "LABEL"),
         name         |-> Text(field_el, "NAME"),
         description  |-> Text(field_el, "DESCRIPTION"),
         field_type   |-> IF Len(ft) = 0 THEN "None"
                          ELSE IF Len(choice_field) > 0 THEN "TEXT_CHOICE_FIELD"
                          ELSE "TEXT_FIELD",
         regex_value  |-> IF Len(ft) > 0 /\ Len(choice_field) = 0 /\ Len(regex_el) > 0
                             /\ Truthy(regex_el[1])
                          THEN <<Strip(regex_el[1])>> ELSE <<>>,
         choices      |-> SelectSeq(vals, Truthy),
         units        |-> [i \in 1..Len(utexts) |-> Strip(utexts[i])],
         mandatory    |-> Text(field_el, "MANDATORY"),
         multiplicity |-> Text(field_el, "MULTIPLICITY")]

\* parse_checklist_xml, lines 62-65: the CHECKLIST child, else the root itself
ChecklistEl(root) == IF Len(root.CHECKLIST) > 0 THEN root.CHECKLIST[1] ELSE root

\* parse_checklist_xml raises (AttributeError on None) when there is no DESCRIPTOR
ParseRaises(root) == Len(ChecklistEl(root).DESCRIPTOR) = 0

\* parse_checklist_xml on a document that has a DESCRIPTOR
ParseChecklistXml(root) ==
    LET cl         == ChecklistEl(root)
        descriptor == cl.DESCRIPTOR[1]
        fgs        == descriptor.FIELD_GROUP
    IN  [accession      |-> Attr(cl, "accession"),
         checklist_type |-> Attr(cl, "checklistType"),
         label          |-> Text(descriptor, "LABEL"),
         name           |-> Text(descriptor, "NAME"),
         description    |-> Text(descriptor, "DESCRIPTION"),
         authority      |-> Text(descriptor, "AUTHORITY"),
         field_groups   |->
             [g \in 1..Len(fgs) |->
                 [name             |-> Text(fgs[g], "NAME"),
                  restriction_type |-> Attr(fgs[g], "restrictionType"),
                  fields           |-> [f \in 1..Len(fgs[g].FIELD) |->
                                           ParseField(fgs[g].FIELD[f])]]]]

----------------------------------------------------------------------------
(* LinkML conversion *)

StringRange == <<"s", "t", "r", "i", "n", "g">>
Mandatory == <<"mandatory">>

IsChoice(field) == field.field_type = "TEXT_CHOICE_FIELD" /\ Truthy(field.choices)

\* A plausible slip: the required key always written, False when not mandatory.
BuildSlotRequiredAlways(field) ==
    [name        |-> field.name,
     title       |-> field.label,
     description |-> field.description,
     range       |-> IF IsChoice(field) THEN MakeEnumName(field.name) ELSE StringRange,
     required    |-> field.mandatory = Mandatory]

\* A plausible slip: the range names an enum for every TEXT_CHOICE_FIELD,
\* with or without choices.
BuildSlotRangeAnyChoice(field) ==
    LET keys == {"name", "title", "description", "range"}
                \cup (IF field.mandatory = Mandatory THEN {"required"} ELSE {})
    IN  [key \in keys |->
            CASE key = "name"        -> field.name
              [] key = "title"       -> field.label
              [] key = "description" -> field.description
              [] key = "range"       -> IF field.field_type = "TEXT_CHOICE_FIELD"
                                        THEN MakeEnumName(field.name)
                                        ELSE StringRange
              [] key = "required"    -> TRUE]

\* _build_slot: a dict whose optional keys are present only when set
BuildSlot(field) ==
    LET has_pattern == Len(field.regex_value) > 0 /\ Truthy(field.regex_value[1])
        keys == {"name", "title", "description", "range"}
                \cup (IF field.mandatory = Mandatory THEN {"required"} ELSE {})
                \cup (IF has_pattern THEN {"pattern"} ELSE {})
                \cup (IF Truthy(field.units) THEN {"comments"} ELSE {})
    IN  [key \in keys |->
            CASE key = "name"        -> field.name
              [] key = "title"       -> field.label
              [] key = "description" -> field.description
              [] key = "range"       -> IF IsChoice(field) THEN MakeEnumName(field.name)
                                        ELSE StringRange
              [] key = "required"    -> TRUE
              [] key = "pattern"     -> field.regex_value[1]
              [] key = "comments"    ->
                     << <<"Allowed units: ">> \o Join(field.units, <<", ">>) >>]

\* _build_enum: permissible_values is a dict val |-> {"text": val}
RECURSIVE BuildPvs(_, _)
BuildPvs(pvs, choices) ==
    IF choices = <<>> THEN pvs
    ELSE BuildPvs(DictSet(pvs, Head(choices), [text |-> Head(choices)]), Tail(choices))

BuildEnum(field) ==
    [name |-> MakeEnumName(field.name), permissible_values |-> BuildPvs(<<>>, field.choices)]

\* A plausible slip: the rank counter starts at 0.
InitAccRankZero ==
    [slots |-> <<>>, enums |-> <<>>, slot_names |-> <<>>, slot_usage |-> <<>>, rank |-> 0]

\* convert_to_linkml, lines 197-201
InitAcc == [slots |-> <<>>, enums |-> <<>>, slot_names |-> <<>>, slot_usage |-> <<>>,
            rank |-> 1]

\* A plausible slip: the slot recorded only for fields that declare a type.
LoopBodySkipUntyped(a, group, field) ==
    [slots      |-> IF field.field_type = "TEXT_FIELD" THEN a.slots
                    ELSE DictSet(a.slots, field.name, BuildSlot(field)),
     enums      |-> IF IsChoice(field)
                    THEN DictSet(a.enums, BuildEnum(field).name, BuildEnum(field))
                    ELSE a.enums,
     slot_names |-> Append(a.slot_names, field.name),
     slot_usage |-> DictSet(a.slot_usage, field.name,
                            [rank |-> a.rank, slot_group |-> group.name]),
     rank       |-> a.rank + 1]

\* convert_to_linkml, lines 205-215: one iteration of the inner loop
LoopBody(a, group, field) ==
    [slots      |-> DictSet(a.slots, field.name, BuildSlot(field)),
     enums      |-> IF IsChoice(field)
                    THEN DictSet(a.enums, BuildEnum(field).name, BuildEnum(field))
                    ELSE a.enums,
     slot_names |-> Append(a.slot_names, field.name),
     slot_usage |-> DictSet(a.slot_usage, field.name,
                            [rank |-> a.rank, slot_group |-> group.name]),
     rank       |-> a.rank + 1]

BaseUri == <<"https://github.com/timrozday", "/", "ena-submission-dataharmonizer">>

\* str.rstrip("/")
RECURSIVE RStripSlash(_)
RStripSlash(s) ==
    IF s # <<>> /\ s[Len(s)] = "/" THEN RStripSlash(SubSeq(s, 1, Len(s) - 1)) ELSE s

SchemaId(cl, base_uri) == RStripSlash(base_uri) \o <<"/">> \o cl.accession

DhInterface == <<"dh_interface">>

\* convert_to_linkml, lines 179-194 and 217-239: the schema dict around the
\* loop's results.  The enums key exists only when enums is non-empty.
BuildSchema(cl, base_uri, a) ==
    LET main_class == [name        |-> cl.accession,
                       title       |-> cl.label,
                       description |-> cl.description,
                       is_a        |-> DhInterface,
                       slots       |-> a.slot_names,
                       slot_usage  |-> a.slot_usage]
        interface  == [name        |-> DhInterface,
                       description |-> <<"A DataHarmonizer interface">>,
                       from_schema |-> SchemaId(cl, base_uri)]
        keys == {"id", "name", "title", "description", "version", "imports", "prefixes",
                 "default_range", "classes", "slots"}
                \cup (IF Truthy(a.enums) THEN {"enums"} ELSE {})
    IN  [key \in keys |->
            CASE key = "id"            -> SchemaId(cl, base_uri)
              [] key = "name"          -> MakeSchemaName(cl.accession)
              [] key = "title"         -> cl.label
              [] key = "description"   -> cl.description
              [] key = "version"       -> <<"1.0.0">>
              [] key = "imports"       -> << <<"linkml:types">> >>
              [] key = "prefixes"      ->
                     [linkml |-> <<"https://w3id.org/linkml/">>,
                      ENA    |-> <<"https://www.ebi.ac.uk/ena/browser/view/">>]
              [] key = "default_range" -> StringRange
              [] key = "classes"       ->
                     DictSet(DictSet(<<>>, DhInterface, interface),
                             cl.accession, main_class)
              [] key = "slots"         -> a.slots
              [] key = "enums"         -> a.enums]

\* the (group, field) pairs in the order the nested loops visit them
RECURSIVE Traversal(_)
Traversal(groups) ==
    IF groups = <<>> THEN <<>>
    ELSE [i \in 1..Len(Head(groups).fields) |->
             [group |-> Head(groups), field |-> Head(groups).fields[i]]]
         \o Traversal(Tail(groups))

RECURSIVE RunLoop(_, _)
RunLoop(a, todo) ==
    IF todo = <<>> THEN a
    ELSE RunLoop(LoopBody(a, Head(todo).group, Head(todo).field), Tail(todo))

\* convert_to_linkml as a whole
ConvertToLinkml(cl, base_uri) ==
    BuildSchema(cl, base_uri, RunLoop(InitAcc, Traversal(cl.field_groups)))

----------------------------------------------------------------------------
(* Inputs: XML elements *)

\* a FIELD element
FieldEl(name, mandatory, ft, units) ==
    [LABEL        |-> << <<"Label">> >>,
     NAME         |-> name,
     DESCRIPTION  |-> <<>>,
     MANDATORY    |-> mandatory,
     MULTIPLICITY |-> << <<"single">> >>,
     FIELD_TYPE   |-> ft,
     UNITS        |-> units]

\* a FIELD_TYPE child holding a TEXT_CHOICE_FIELD with these VALUE texts
ChoiceType(values) ==
    << [TEXT_FIELD        |-> <<>>,
        TEXT_CHOICE_FIELD |->
            << [TEXT_VALUE |-> [i \in 1..Len(values) |-> [VALUE |-> <<values[i]>>]]] >>] >>

\* a FIELD_TYPE child holding a TEXT_FIELD without REGEX_VALUE
PlainTextType == << [TEXT_FIELD |-> << [REGEX_VALUE |-> <<>>] >>, TEXT_CHOICE_FIELD |-> <<>>] >>

\* a CHECKLIST_SET document around one CHECKLIST with these FIELD_GROUPs
DocOf(accession, groups) ==
    [CHECKLIST     |-> << [accession     |-> <<accession>>,
                           checklistType |-> << <<"Sample">> >>,
                           DESCRIPTOR    |-> << [LABEL       |-> << <<"Checklist">> >>,
                                                 NAME        |-> << <<"checklist">> >>,
                                                 DESCRIPTION |-> << <<>> >>,
                                                 AUTHORITY   |-> <<>>,
                                                 FIELD_GROUP |-> groups] >>] >>,
     accession     |-> <<>>,
     checklistType |-> <<>>,
     DESCRIPTOR    |-> <<>>]

\* a document whose root is the CHECKLIST itself
RootDocOf(accession, groups) ==
    [CHECKLIST     |-> <<>>,
     accession     |-> <<accession>>,
     checklistType |-> <<>>,
     DESCRIPTOR    |-> << [LABEL       |-> <<>>,
                           NAME        |-> <<>>,
                           DESCRIPTION |-> <<>>,
                           AUTHORITY   |-> <<>>,
                           FIELD_GROUP |-> groups] >>]

\* a well-formed document without DESCRIPTOR
NoDescriptorDoc ==
    [CHECKLIST     |-> <<>>,
     accession     |-> <<>>,
     checklistType |-> <<>>,
     DESCRIPTOR    |-> <<>>]

GroupNameOf(g) == <<"g", ToString(g)>>

GroupEl(g, fields) ==
    [NAME |-> <<GroupNameOf(g)>>, restrictionType |-> <<>>, FIELD |-> fields]

RECURSIVE Sum(_)
Sum(ns) == IF ns = <<>> THEN 0 ELSE Head(ns) + Sum(Tail(ns))

\* the groups with the given sizes, filled in document order from flat
GroupsOf(sizes, flat) ==
    [g \in 1..Len(sizes) |->
        GroupEl(g, [f \in 1..sizes[g] |-> flat[Sum(SubSeq(sizes, 1, g - 1)) + f]])]

(* inputs of the conversion *)
ConvNames == {<<"a">>, <<"A">>, <<"b">>}
ConvTypes == {PlainTextType, ChoiceType(<<>>), ChoiceType(<<<<"y">>, <<"x">>>>)}
ConvFieldEls ==
    {FieldEl(<<n>>, << <<"optional">> >>, t, <<>>) : n \in ConvNames, t \in ConvTypes}
ConvShapes == {sz \in SeqsUpTo(0..MaxFields, MaxGroups) : Sum(sz) <= MaxFields}

(* inputs of _parse_field and _build_slot *)
UnitTexts == {<<>>, <<" ">>, <<"m">>, <<" ", "kg", " ">>}
UnitsEls == {<<>>} \cup {<<[UNIT |-> us]>> : us \in SeqsUpTo(UnitTexts, MaxUnits)}
ValueEls == {[VALUE |-> <<>>], [VALUE |-> << <<" ">> >>], [VALUE |-> << <<"x", " ">> >>]}
TextFieldEls == {<<>>} \cup
    {<<[REGEX_VALUE |-> r]>> : r \in {<<>>, << <<"^r$">> >>, << <<" ">> >>}}
ChoiceFieldEls == {<<>>} \cup
    {<<[TEXT_VALUE |-> tvs]>> : tvs \in SeqsUpTo(ValueEls, MaxChoices)}
FieldTypeEls == {<<>>} \cup
    {<<[TEXT_FIELD |-> tf, TEXT_CHOICE_FIELD |-> cf]>> :
        tf \in TextFieldEls, cf \in ChoiceFieldEls}
MandatoryEls == {<<>>, << <<>> >>, << <<"mandatory">> >>, << <<" ", "mandatory", "\n">> >>,
                 << <<"Mandatory">> >>, << <<"optional">> >>}
ParseFieldEls ==
    {FieldEl(<< <<"a", "_", "b">> >>, m, ft, u) :
        m \in MandatoryEls, ft \in FieldTypeEls, u \in UnitsEls}

(* inputs of _make_enum_name *)
NameChars == {"a", "b", "A", "B", "_"}

(* inputs of main: a path is unreadable, not well-formed, or holds a document *)
Accessions == {<<"ERC1">>, <<"ERC2">>}
MainDocs ==
    {DocOf(a, <<GroupEl(1, <<FieldEl(<< <<"a">> >>, << <<"mandatory">> >>,
                                     ChoiceType(<< <<"x">> >>), <<>>)>>)>>) :
        a \in Accessions}
    \cup {RootDocOf(a, <<>>) : a \in Accessions}
    \cup {NoDescriptorDoc}
Files == {[status |-> "ok", root |-> d] : d \in MainDocs}
         \cup {[status |-> st, root |-> NoDescriptorDoc] : st \in {"unreadable", "malformed"}}

----------------------------------------------------------------------------
(* _make_enum_name on its own *)

InitName ==
    /\ pc = "name_start"
    /\ arg \in SeqsUpTo(NameChars, MaxNameLen)
    /\ ret = <<>> /\ xml = <<>> /\ checklist = <<>> /\ acc = <<>> /\ gi = 0 /\ fi = 0
    /\ schema = <<>> /\ xml_files = <<>> /\ idx = 0 /\ fs = <<>> /\ log = <<>>

CallMakeEnumName ==
    /\ pc = "name_start"
    /\ ret' = MakeEnumName(arg)
    /\ pc' = "name_done"
    /\ UNCHANGED <<arg, xml, checklist, acc, gi, fi, schema, xml_files, idx, fs, log>>

NextName == CallMakeEnumName

SpecName == InitName /\ [][NextName]_vars

----------------------------------------------------------------------------
(* _parse_field followed by _build_slot on one FIELD element *)

InitField ==
    /\ pc = "field_start"
    /\ arg \in ParseFieldEls
    /\ ret = <<>> /\ xml = <<>> /\ checklist = <<>> /\ acc = <<>> /\ gi = 0 /\ fi = 0
    /\ schema = <<>> /\ xml_files = <<>> /\ idx = 0 /\ fs = <<>> /\ log = <<>>

\* ret = <<field>>
CallParseField ==
    /\ pc = "field_start"
    /\ ret' = <<ParseField(arg)>>
    /\ pc' = "field_parsed"
    /\ UNCHANGED <<arg, xml, checklist, acc, gi, fi, schema, xml_files, idx, fs, log>>

\* ret = <<field, slot>>
CallBuildSlot ==
    /\ pc = "field_parsed"
    /\ ret' = <<ret[1], BuildSlot(ret[1])>>
    /\ pc' = "field_done"
    /\ UNCHANGED <<arg, xml, checklist, acc, gi, fi, schema, xml_files, idx, fs, log>>

NextField == CallParseField \/ CallBuildSlot

SpecField == InitField /\ [][NextField]_vars

----------------------------------------------------------------------------
(* One file: parse_checklist_xml, then convert_to_linkml step by step *)

Init ==
    /\ pc = "start"
    /\ \E sz \in ConvShapes : \E flat \in [1..Sum(sz) -> ConvFieldEls] :
           xml = DocOf(<<"ERC000015">>, GroupsOf(sz, flat))
    /\ arg = <<>> /\ ret = <<>> /\ checklist = <<>> /\ acc = <<>> /\ gi = 0 /\ fi = 0
    /\ schema = <<>> /\ xml_files = <<>> /\ idx = 0 /\ fs = <<>> /\ log = <<>>

Parse ==
    /\ pc = "start"
    /\ ~ParseRaises(xml)
    /\ checklist' = ParseChecklistXml(xml)
    /\ pc' = "parsed"
    /\ UNCHANGED <<arg, ret, xml, acc, gi, fi, schema, xml_files, idx, fs, log>>

\* lines 179-203: up to the first iteration
ConvertBegin ==
    /\ pc = "parsed"
    /\ acc' = InitAcc
    /\ gi' = 1 /\ fi' = 1
    /\ pc' = "loop"
    /\ UNCHANGED <<arg, ret, xml, checklist, schema, xml_files, idx, fs, log>>

\* lines 204-215: the body for the next field of the current group
ConvertField ==
    /\ pc = "loop"
    /\ gi <= Len(checklist.field_groups)
    /\ fi <= Len(checklist.field_groups[gi].fields)
    /\ acc' = LoopBody(acc, checklist.field_groups[gi], checklist.field_groups[gi].fields[fi])
    /\ fi' = fi + 1
    /\ UNCHANGED <<pc, arg, ret, xml, checklist, gi, schema, xml_files, idx, fs, log>>

\* line 203: the current group is exhausted
ConvertNextGroup ==
    /\ pc = "loop"
    /\ gi <= Len(checklist.field_groups)
    /\ fi > Len(checklist.field_groups[gi].fields)
    /\ gi' = gi + 1 /\ fi' = 1
    /\ UNCHANGED <<pc, arg, ret, xml, checklist, acc, schema, xml_files, idx, fs, log>>

\* lines 217-239
ConvertEnd ==
    /\ pc = "loop"
    /\ gi > Len(checklist.field_groups)
    /\ schema' = BuildSchema(checklist, BaseUri, acc)
    /\ pc' = "converted"
    /\ UNCHANGED <<arg, ret, xml, checklist, acc, gi, fi, xml_files, idx, fs, log>>

Next == Parse \/ ConvertBegin \/ ConvertField \/ ConvertNextGroup \/ ConvertEnd

Spec == Init /\ [][Next]_vars

----------------------------------------------------------------------------
(* main: the batch over the resolved input list *)

NoLog == [parse |-> "none", converted |-> FALSE, opened |-> FALSE, written |-> FALSE]

\* os.path.join(output_dir, accession + ".yaml"), within the output directory
OutPath(cl) == cl.accession \o <<".yaml">>

InitMain ==
    /\ pc = "main"
    /\ xml_files \in SeqsUpTo(Files, MaxFiles)
    /\ idx = 1
    /\ fs = <<>>
    /\ log = [i \in 1..Len(xml_files) |-> NoLog]
    /\ arg = <<>> /\ ret = <<>> /\ xml = <<>> /\ checklist = <<>> /\ acc = <<>>
    /\ gi = 0 /\ fi = 0 /\ schema = <<>>

\* lines 340-342
MainNoFiles ==
    /\ pc = "main"
    /\ xml_files = <<>>
    /\ pc' = "done"
    /\ UNCHANGED <<arg, ret, xml, checklist, acc, gi, fi, schema, xml_files, idx, fs, log>>

\* line 344
MainStart ==
    /\ pc = "main"
    /\ xml_files # <<>>
    /\ pc' = "next"
    /\ UNCHANGED <<arg, ret, xml, checklist, acc, gi, fi, schema, xml_files, idx, fs, log>>

\* What parse_checklist_xml returns on a document without FIELD_GROUPs.
EmptyChecklist == ParseChecklistXml(RootDocOf(<<>>, <<>>))

\* A plausible slip: the failure of the parse is swallowed and the iteration
\* goes on with an empty checklist.
MainParseSwallow ==
    /\ pc = "next"
    /\ idx <= Len(xml_files)
    /\ IF xml_files[idx].status # "ok" \/ ParseRaises(xml_files[idx].root)
       THEN /\ log' = [log EXCEPT ![idx].parse = "raised"]
            /\ checklist' = EmptyChecklist
       ELSE /\ log' = [log EXCEPT ![idx].parse = "ok"]
            /\ checklist' = ParseChecklistXml(xml_files[idx].root)
    /\ pc' = "m_parsed"
    /\ UNCHANGED <<arg, ret, xml, acc, gi, fi, schema, xml_files, idx, fs>>

\* lines 345-347.  ET.parse raises on an unreadable or malformed file and
\* parse_checklist_xml raises without DESCRIPTOR; main has no handler, so
\* the exception ends the run.
MainParse ==
    /\ pc = "next"
    /\ idx <= Len(xml_files)
    /\ IF xml_files[idx].status # "ok" \/ ParseRaises(xml_files[idx].root)
       THEN /\ log' = [log EXCEPT ![idx].parse = "raised"]
            /\ pc' = "aborted"
            /\ UNCHANGED checklist
       ELSE /\ log' = [log EXCEPT ![idx].parse = "ok"]
            /\ checklist' = ParseChecklistXml(xml_files[idx].root)
            /\ pc' = "m_parsed"
    /\ UNCHANGED <<arg, ret, xml, acc, gi, fi, schema, xml_files, idx, fs>>

\* line 349
MainConvert ==
    /\ pc = "m_parsed"
    /\ schema' = ConvertToLinkml(checklist, BaseUri)
    /\ log' = [log EXCEPT ![idx].converted = TRUE]
    /\ pc' = "m_converted"
    /\ UNCHANGED <<arg, ret, xml, checklist, acc, gi, fi, xml_files, idx, fs>>

\* lines 351-353, write_yaml lines 286-287: makedirs and open(output_path, "w")
\* either raise OSError or leave an empty file at the path
MainOpen ==
    /\ pc = "m_converted"
    /\ \E ok \in BOOLEAN :
          IF ok
          THEN /\ fs' = DictSet(fs, OutPath(checklist), [state |-> "partial", by |-> idx])
               /\ log' = [log EXCEPT ![idx].opened = TRUE]
               /\ pc' = "m_opened"
          ELSE /\ pc' = "aborted"
               /\ UNCHANGED <<fs, log>>
    /\ UNCHANGED <<arg, ret, xml, checklist, acc, gi, fi, schema, xml_files, idx>>

\* write_yaml lines 288-297: yaml.dump completes the file or raises midway
MainDump ==
    /\ pc = "m_opened"
    /\ \E ok \in BOOLEAN :
          IF ok
          THEN /\ fs' = DictSet(fs, OutPath(checklist), [state |-> "complete", by |-> idx])
               /\ log' = [log EXCEPT ![idx].written = TRUE]
               /\ pc' = "m_written"
          ELSE /\ pc' = "aborted"
               /\ UNCHANGED <<fs, log>>
    /\ UNCHANGED <<arg, ret, xml, checklist, acc, gi, fi, schema, xml_files, idx>>

\* lines 355-359, then the next iteration
MainSummary ==
    /\ pc = "m_written"
    /\ idx' = idx + 1
    /\ pc' = "next"
    /\ UNCHANGED <<arg, ret, xml, checklist, acc, gi, fi, schema, xml_files, fs, log>>

\* line 361
MainDone ==
    /\ pc = "next"
    /\ idx > Len(xml_files)
    /\ pc' = "done"
    /\ UNCHANGED <<arg, ret, xml, checklist, acc, gi, fi, schema, xml_files, idx, fs, log>>

NextMain ==
    MainNoFiles \/ MainStart \/ MainParse \/ MainConvert \/ MainOpen \/ MainDump
    \/ MainSummary \/ MainDone

SpecMain == InitMain /\ [][NextMain]_vars

----------------------------------------------------------------------------
(* Properties of the conversion of one file (Spec) *)

Converted == pc = "converted"

\* the (group, field) pairs of the parsed checklist, group-major
Flat == Traversal(checklist.field_groups)

TotalFields ==
    Sum([g \in 1..Len(checklist.field_groups) |-> Len(checklist.field_groups[g].fields)])

\* the checklist honours the data model: field names are unique
DistinctNames ==
    \A i, j \in 1..Len(Flat) : i # j => Flat[i].field.name # Flat[j].field.name

MainClass == Get(schema.classes, checklist.accession)

Ranks(su) == {su[i].v.rank : i \in 1..Len(su)}

HasEnum(en) == "enums" \in DOMAIN schema /\ HasKey(schema.enums, en)

\* C1 as stated: for every parsed checklist, whatever its field names, the
\* slots mapping has as many entries as the checklist has fields.
C1_SlotCountAnyNames ==
    Converted => Len(schema.slots) = TotalFields

\* C1 amended: when the field names of the checklist are pairwise distinct,
\* the slots mapping has exactly one entry per field: as many entries as
\* fields, and every field's name is a key.
C1_SlotCountDistinctNames ==
    (Converted /\ DistinctNames) =>
        /\ Len(schema.slots) = TotalFields
        /\ \A k \in 1..Len(Flat) : HasKey(schema.slots, Flat[k].field.name)

C1_Witness ==
    /\ Converted /\ DistinctNames
    /\ Len(checklist.field_groups) >= 2
    /\ \A g \in 1..Len(checklist.field_groups) : Len(checklist.field_groups[g].fields) >= 1
    /\ Len(schema.slots) = TotalFields

\* C2 as stated: after all N fields were traversed, the ranks in the main
\* class's slot_usage are exactly 1..N, and the k-th field in flattened
\* order has rank k and the name of its group as slot_group.
C2_RanksContiguous ==
    Converted =>
        /\ Ranks(MainClass.slot_usage) = 1..TotalFields
        /\ \A k \in 1..Len(Flat) :
              /\ HasKey(MainClass.slot_usage, Flat[k].field.name)
              /\ Get(MainClass.slot_usage, Flat[k].field.name)
                    = [rank |-> k, slot_group |-> Flat[k].group.name]

\* C2 amended: the same, for checklists whose field names are pairwise
\* distinct.
C2_RanksContiguousDistinctNames ==
    (Converted /\ DistinctNames) =>
        /\ Ranks(MainClass.slot_usage) = 1..TotalFields
        /\ \A k \in 1..Len(Flat) :
              /\ HasKey(MainClass.slot_usage, Flat[k].field.name)
              /\ Get(MainClass.slot_usage, Flat[k].field.name)
                    = [rank |-> k, slot_group |-> Flat[k].group.name]

C2_Witness ==
    /\ Converted /\ DistinctNames
    /\ Len(Flat) >= 2
    /\ Flat[1].group.name # Flat[Len(Flat)].group.name
    /\ Get(MainClass.slot_usage, Flat[Len(Flat)].field.name).rank = Len(Flat)

\* C3: a field has a companion enum under its derived enum name iff it is a
\* TEXT_CHOICE_FIELD with choices, and that enum's permissible values are
\* the field's choice list, in order, each mapped to itself as text.
\* Stated for checklists that honour the uniqueness of field names.
C3_EnumIffChoice ==
    (Converted /\ DistinctNames) =>
        \A k \in 1..Len(Flat) :
            LET f  == Flat[k].field
                en == MakeEnumName(f.name)
            IN  /\ HasEnum(en) <=> IsChoice(f)
                /\ IsChoice(f) =>
                      Get(schema.enums, en).permissible_values
                         = [i \in 1..Len(f.choices) |->
                               [k |-> f.choices[i], v |-> [text |-> f.choices[i]]]]

\* C10 as stated: every slot's range is "string" or a key of enums; the
\* enums key is present exactly when some slot has another range than
\* "string", and is never an empty mapping.
C10_RangesResolve ==
    Converted =>
        /\ \A i \in 1..Len(schema.slots) :
              \/ schema.slots[i].v.range = StringRange
              \/ HasEnum(schema.slots[i].v.range)
        /\ "enums" \in DOMAIN schema
              <=> \E i \in 1..Len(schema.slots) : schema.slots[i].v.range # StringRange
        /\ "enums" \in DOMAIN schema => Len(schema.enums) > 0

\* C10 amended: the same, for checklists whose field names are pairwise
\* distinct.
C10_RangesResolveDistinctNames ==
    (Converted /\ DistinctNames) =>
        /\ \A i \in 1..Len(schema.slots) :
              \/ schema.slots[i].v.range = StringRange
              \/ HasEnum(schema.slots[i].v.range)
        /\ "enums" \in DOMAIN schema
              <=> \E i \in 1..Len(schema.slots) : schema.slots[i].v.range # StringRange
        /\ "enums" \in DOMAIN schema => Len(schema.enums) > 0

C10_Witness ==
    /\ Converted /\ DistinctNames
    /\ \E i, j \in 1..Len(schema.slots) :
          /\ schema.slots[i].v.range = StringRange
          /\ schema.slots[j].v.range # StringRange
          /\ HasEnum(schema.slots[j].v.range)

----------------------------------------------------------------------------
(* Properties of _make_enum_name (SpecName) *)

\* how many underscores name has up to position i
Underscores(name, i) == Cardinality({j \in 1..i : name[j] = "_"})

StartsSegment(name, i) == i = 1 \/ name[i - 1] = "_"

\* C4 as stated: the enum name is the name without its underscores, the
\* first character of each segment upper-cased and every other character
\* unchanged, followed by Menu.
C4_FirstUpperRestUnchanged ==
    pc = "name_done" =>
        /\ Len(ret) = Len(arg) - Underscores(arg, Len(arg)) + Len(Menu)
        /\ SubSeq(ret, Len(ret) - Len(Menu) + 1, Len(ret)) = Menu
        /\ \A i \in 1..Len(arg) :
              arg[i] # "_" =>
                 ret[i - Underscores(arg, i)]
                    = IF StartsSegment(arg, i) THEN Upper(arg[i]) ELSE arg[i]

\* C4 amended: the enum name is the name without its underscores, the first
\* character of each segment upper-cased and every other character of the
\* segment lower-cased, followed by Menu.
C4_FirstUpperRestLower ==
    pc = "name_done" =>
        /\ Len(ret) = Len(arg) - Underscores(arg, Len(arg)) + Len(Menu)
        /\ SubSeq(ret, Len(ret) - Len(Menu) + 1, Len(ret)) = Menu
        /\ \A i \in 1..Len(arg) :
              arg[i] # "_" =>
                 ret[i - Underscores(arg, i)]
                    = IF StartsSegment(arg, i) THEN Upper(arg[i]) ELSE Lower(arg[i])

C4_Witness ==
    /\ pc = "name_done"
    /\ arg = <<"a", "B">>
    /\ ret = <<"A", "b">> \o Menu

----------------------------------------------------------------------------
(* Properties of _parse_field and _build_slot (SpecField) *)

FieldParsed == pc \in {"field_parsed", "field_done"}

\* the FIELD element has no FIELD_TYPE, or one with neither sub-element
NoTypeShape ==
    \/ Len(arg.FIELD_TYPE) = 0
    \/ /\ Len(arg.FIELD_TYPE[1].TEXT_FIELD) = 0
       /\ Len(arg.FIELD_TYPE[1].TEXT_CHOICE_FIELD) = 0

\* C7: every parsed field has field_type TEXT_FIELD or TEXT_CHOICE_FIELD;
\* without FIELD_TYPE, or with one that holds neither sub-element, it is
\* TEXT_FIELD and regex_value is absent.
C7_FieldTypeDefault ==
    FieldParsed =>
        /\ ret[1].field_type \in {"TEXT_FIELD", "TEXT_CHOICE_FIELD"}
        /\ NoTypeShape => (ret[1].field_type = "TEXT_FIELD" /\ Len(ret[1].regex_value) = 0)

\* C8: the slot has the required key, with value true, iff the field's
\* mandatory string is exactly "mandatory"; otherwise the key is absent.
C8_RequiredIffMandatory ==
    pc = "field_done" =>
        /\ "required" \in DOMAIN ret[2] <=> ret[1].mandatory = <<"mandatory">>
        /\ "required" \in DOMAIN ret[2] => ret[2].required = TRUE

C8_Witness ==
    /\ pc = "field_done"
    /\ arg.MANDATORY = << <<" ", "mandatory", "\n">> >>
    /\ "required" \in DOMAIN ret[2]

\* the UNIT texts of the FIELD element, trimmed, empty ones dropped
TrimmedUnits ==
    LET us == IF Len(arg.UNITS) > 0 THEN arg.UNITS[1].UNIT ELSE <<>>
    IN  SelectSeq([i \in 1..Len(us) |-> Strip(us[i])], Truthy)

\* C9: units holds, in document order, the trimmed text of exactly the unit
\* children whose trimmed text is non-empty, never an empty string, and the
\* slot has comments only when a non-empty unit was collected.
C9_UnitsTrimmedNonEmpty ==
    FieldParsed =>
        /\ ret[1].units = TrimmedUnits
        /\ \A i \in 1..Len(ret[1].units) : Len(ret[1].units[i]) > 0
        /\ pc = "field_done" => ("comments" \in DOMAIN ret[2] => Len(TrimmedUnits) > 0)

----------------------------------------------------------------------------
(* Properties of main (SpecMain) *)

Terminated == pc \in {"done", "aborted"}

\* C5: when the batch has ended, every file of the resolved list has been
\* parsed (attempted), whatever happened to the files before it.
C5_EveryFileAttempted ==
    Terminated => \A i \in 1..Len(xml_files) : log[i].parse # "none"

\* C6: an output file is opened only for an input whose parse and
\* conversion completed; a file whose parse failed has no output opened,
\* written or left in the output directory.
C6_WriteOnlyAfterParseAndConvert ==
    pc # "main" =>
        /\ \A i \in 1..Len(xml_files) :
              /\ log[i].opened => (log[i].parse = "ok" /\ log[i].converted)
              /\ log[i].written => log[i].opened
        /\ \A e \in 1..Len(fs) :
              /\ log[fs[e].v.by].parse = "ok"
              /\ log[fs[e].v.by].converted

C6_Witness ==
    /\ pc = "aborted"
    /\ idx = 2
    /\ log[2].parse = "raised"
    /\ log[1].written
    /\ Len(fs) = 1 /\ fs[1].v = [state |-> "complete", by |-> 1]

====
